---- MODULE Spec2Model ----
(***************************************************************************)
(* Model of the LPSS network monitor (src/src/main.cpp).                   *)
(*                                                                         *)
(* Four threads share one MonitorState: task_nodes, task_topics and        *)
(* task_heartbeat, started with std::async, and main, which runs the       *)
(* command console.  Every thread is modelled by a program counter and one *)
(* action per step between two points where another thread can observe or  *)
(* change the shared state.                                                *)
(*                                                                         *)
(* A Guid is the 64-bit field Guid::full, kept as four 16-bit limbs, least *)
(* significant first.  A string whose order matters (a topic, which a      *)
(* std::set sorts) is the sequence of its character codes.                 *)
(***************************************************************************)
EXTENDS Integers, Sequences, FiniteSets, TLC

(***************************************************************************)
(* Bounds of the model.                                                    *)
(***************************************************************************)
\* announcements (node and endpoint together) the network delivers in one run
MaxAnnouncements == 3
\* the count of a task's effects after running became false stops here
MaxAfterStop == 2

(***************************************************************************)
(* Program constants.                                                      *)
(***************************************************************************)
\* data.size() >= 14
MinPacket == 14
\* char cmd[64], arg[64]
TokenBuf == 64

(***************************************************************************)
(* Values the inputs are drawn from.                                       *)
(***************************************************************************)
\* 0x00000000000000AA
GuidAA == <<170, 0, 0, 0>>
\* 0x00010000000000AA: differs from GuidAA only above bit 47
GuidAAhi == <<170, 0, 0, 1>>
\* 0x00000000000000BB
GuidBB == <<187, 0, 0, 0>>

Names == {"cam", "det"}
\* the topic "a"
TopicA == <<97>>
\* the topic "ab"
TopicAB == <<97, 98>>

(***************************************************************************)
(* Pure helpers.                                                           *)
(***************************************************************************)
RECURSIVE BitAnd(_, _)
\* x & y on naturals
BitAnd(x, y) ==
    IF x = 0 \/ y = 0 THEN 0
    ELSE (x % 2) * (y % 2) + 2 * BitAnd(x \div 2, y \div 2)

\* 0xFFFFFFFFFFFFULL as limbs
PrefixMask == <<65535, 65535, 65535, 0>>

\* a mask that keeps all 64 bits
get_prefix_nomask(g) == g

\* get_prefix: g.full & 0xFFFFFFFFFFFF
get_prefix(g) == [i \in 1..4 |-> BitAnd(g[i], PrefixMask[i])]

\* all orders in which the elements of S can be enumerated
Perms(S) ==
    {s \in [1..Cardinality(S) -> S] : \A x \in S : \E i \in 1..Cardinality(S) : s[i] = x}

\* std::string operator< on character sequences
LexLess(s, t) ==
    \E k \in 0..Len(s) :
        /\ k <= Len(t)
        /\ \A i \in 1..k : s[i] = t[i]
        /\ \/ (k = Len(s) /\ k < Len(t))
           \/ (k < Len(s) /\ k < Len(t) /\ s[k + 1] < t[k + 1])

\* the elements of a std::set<std::string> in iteration (ascending) order
SortedSeq(S) ==
    CHOOSE s \in Perms(S) : \A i, j \in 1..Cardinality(S) : i < j => LexLess(s[i], s[j])

RECURSIVE Flatten(_)
\* concatenation of a sequence of sequences
Flatten(ss) == IF ss = <<>> THEN <<>> ELSE Head(ss) \o Flatten(Tail(ss))

(***************************************************************************)
(* State.                                                                  *)
(***************************************************************************)
VARIABLES
    running,    \* MonitorState::running
    mtx,        \* MonitorState::mtx: "free" or the thread that holds it
    nodes,      \* MonitorState::nodes: prefix -> name
    nodesIter,  \* the order in which the unordered_map nodes is iterated
    topics,     \* MonitorState::topics: prefix -> sequence of EndpointInfo
    pcN, msgN,  \* task_nodes: position and decoded RNDPMessage
    pcT, msgT,  \* task_topics: position and decoded REDPMessage
    pcH,        \* task_heartbeat: position
    pcM,        \* main: position
    cmd, arg,   \* main: the tokens sscanf stored, "" when dead
    eof,        \* whether the last fgets returned NULL
    out,        \* lines the command being served has printed
    dot,        \* lines the command being served has written to lpss_graph.dot
    rasterized, \* whether the command being served has called system()
    histN,      \* announcements task_nodes has stored, in order
    histE,      \* announcements task_topics has stored, in order
    afterStop   \* what each task has done since running became false

vars == <<running, mtx, nodes, nodesIter, topics, pcN, msgN, pcT, msgT, pcH,
          pcM, cmd, arg, eof, out, dot, rasterized, histN, histE, afterStop>>

storeVars == <<nodes, nodesIter, topics>>
consoleVars == <<pcM, cmd, arg, eof, out, dot, rasterized>>
nodeVars == <<pcN, msgN, histN>>
topicVars == <<pcT, msgT, histE>>

(***************************************************************************)
(* Datagrams and console lines.                                            *)
(***************************************************************************)
NoMsg == [guid |-> <<>>]

\* what RNDPMessage::deserialize yields for a well-formed 'N' datagram
NodeMsgs ==
    {[guid |-> GuidAA, name |-> "cam"], [guid |-> GuidAAhi, name |-> "det"],
     [guid |-> GuidBB, name |-> "cam"]}
\* what REDPMessage::deserialize yields for a well-formed 'E' datagram
EndpointMsgs ==
    {[endpoint_guid |-> GuidAAhi, topic |-> TopicAB, type |-> "Writer"],
     [endpoint_guid |-> GuidAAhi, topic |-> TopicAB, type |-> "Reader"],
     [endpoint_guid |-> GuidAAhi, topic |-> TopicA, type |-> "Writer"],
     [endpoint_guid |-> GuidBB, topic |-> TopicA, type |-> "Reader"]}

\* datagrams a socket can deliver: size, leading byte, payload
NodeDatagrams ==
    [size : {MinPacket}, tag : {"N"}, msg : NodeMsgs]
        \cup [size : {MinPacket - 1}, tag : {"N"}, msg : {NoMsg}]
        \cup [size : {MinPacket}, tag : {"E"}, msg : {NoMsg}]
EndpointDatagrams ==
    [size : {MinPacket}, tag : {"E"}, msg : EndpointMsgs]
        \cup [size : {MinPacket - 1}, tag : {"E"}, msg : {NoMsg}]
        \cup [size : {MinPacket}, tag : {"N"}, msg : {NoMsg}]

\* a whitespace-delimited token of an input line: its text and its length
Tok(s, l) == [s |-> s, len |-> l]
\* a token that does not fit char[64] together with its terminating NUL
LongTok == Tok("xxxx", TokenBuf)

\* the lines fgets can return
Lines ==
    {<<>>, <<Tok("list", 4)>>, <<Tok("info", 4)>>, <<Tok("graph", 5)>>,
     <<Tok("quit", 4)>>, <<Tok("bogus", 5)>>, <<LongTok>>}
        \cup {<<Tok("info", 4), Tok(nm, 3)>> : nm \in Names}

\* nothing done since running became false
NothingYet ==
    [nodes |-> 0, topics |-> 0, beats |-> 0, dropN |-> FALSE, dropT |-> FALSE]

\* one more effect of kind k, counted only once running is false
Counted(k) ==
    IF running THEN afterStop
    ELSE [afterStop EXCEPT ![k] = IF @ < MaxAfterStop THEN @ + 1 ELSE @]

\* a datagram was discarded, noted only once running is false
Dropped(k) == IF running THEN afterStop ELSE [afterStop EXCEPT ![k] = TRUE]

\* announcements read from a socket so far: stored, or about to be
Delivered ==
    Len(histN) + Len(histE) + (IF pcN \in {"lock", "cs"} THEN 1 ELSE 0)
        + (IF pcT \in {"lock", "cs"} THEN 1 ELSE 0)

(***************************************************************************)
(* The mutex.                                                              *)
(***************************************************************************)
\* a lock_guard that does not wait for the mutex
AcquireNoWait(t) == mtx' = t

\* std::lock_guard constructor: blocks until the mutex is free
Acquire(t) == mtx = "free" /\ mtx' = t

\* std::lock_guard destructor
Release(t) == mtx = t /\ mtx' = "free"

(***************************************************************************)
(* Store operations.                                                       *)
(***************************************************************************)
\* an upsert that keeps the name already stored
NodeUpsertKeepFirst(ns, p, name) ==
    [q \in DOMAIN ns \cup {p} |-> IF q \in DOMAIN ns THEN ns[q] ELSE name]

\* state->nodes[p] = name
NodeUpsert(ns, p, name) ==
    [q \in DOMAIN ns \cup {p} |-> IF q = p THEN name ELSE ns[q]]

\* iteration orders of nodes after operator[] on key p
IterAfterInsert(iter, keys, p) ==
    IF p \in keys THEN {iter} ELSE Perms(keys \cup {p})

\* state->topics[p]: the list a lookup-or-create yields
TopicsAt(ts, p) == IF p \in DOMAIN ts THEN ts[p] ELSE <<>>

\* an append with no existence check
EndpointAppendAlways(list, topic, is_pub) ==
    Append(list, [topic |-> topic, is_pub |-> is_pub])

\* a push_front in place of the push_back
EndpointPrepend(list, topic, is_pub) ==
    LET exists == \E i \in 1..Len(list) :
                      list[i].topic = topic /\ list[i].is_pub = is_pub
    IN  IF exists THEN list
        ELSE <<[topic |-> topic, is_pub |-> is_pub]>> \o list

\* the scan of the list and the push_back of a record not found
EndpointAppend(list, topic, is_pub) ==
    LET exists == \E i \in 1..Len(list) :
                      list[i].topic = topic /\ list[i].is_pub = is_pub
    IN  IF exists THEN list
        ELSE Append(list, [topic |-> topic, is_pub |-> is_pub])

\* a role test that takes the Reader for the publisher
IsPubReader(type) == type = "Reader"

\* msg.type == REDPMessage::Type::Writer
IsPub(type) == type = "Writer"

(***************************************************************************)
(* Initial state: MonitorState constructed, the three tasks launched, main *)
(* at its first prompt.                                                    *)
(***************************************************************************)
Init ==
    /\ running = TRUE
    /\ mtx = "free"
    /\ nodes = <<>>
    /\ nodesIter = <<>>
    /\ topics = <<>>
    /\ pcN = "check" /\ msgN = NoMsg
    /\ pcT = "check" /\ msgT = NoMsg
    /\ pcH = "check"
    /\ pcM = "prompt"
    /\ cmd = "" /\ arg = "" /\ eof = FALSE
    /\ out = <<>> /\ dot = <<>> /\ rasterized = FALSE
    /\ histN = <<>> /\ histE = <<>>
    /\ afterStop = NothingYet

(***************************************************************************)
(* task_nodes.                                                             *)
(***************************************************************************)
\* a loop test that never sees the flag
NodeCheckForever ==
    /\ pcN = "check"
    /\ pcN' = "read"
    /\ UNCHANGED <<running, mtx, storeVars, msgN, histN, topicVars, pcH, consoleVars, afterStop>>

\* while (state->running)
NodeCheck ==
    /\ pcN = "check"
    /\ pcN' = IF running THEN "read" ELSE "done"
    /\ UNCHANGED <<running, mtx, storeVars, msgN, histN, topicVars, pcH, consoleVars, afterStop>>

\* a test that forgets the size
NodeAcceptsAnySize(d) == d.tag = "N"

\* data.size() >= 14 && data[0] == 'N'
NodeAccepts(d) == d.size >= MinPacket /\ d.tag = "N"

\* sock.read() returns datagram d; the size and tag test
NodeReadOf(d) ==
    /\ pcN = "read"
    /\ IF NodeAccepts(d)
       THEN /\ Delivered < MaxAnnouncements
            /\ msgN' = d.msg
            /\ pcN' = "lock"
            /\ afterStop' = afterStop
       ELSE /\ msgN' = msgN
            /\ pcN' = "check"
            /\ afterStop' = Dropped("dropN")
    /\ UNCHANGED <<running, mtx, storeVars, histN, topicVars, pcH, consoleVars>>

\* sock.read() returns
NodeRead == \E d \in NodeDatagrams : NodeReadOf(d)

\* std::lock_guard<std::mutex> lock(state->mtx)
NodeLock ==
    /\ pcN = "lock"
    /\ Acquire("N")
    /\ pcN' = "cs"
    /\ UNCHANGED <<running, storeVars, msgN, histN, topicVars, pcH, consoleVars, afterStop>>

\* state->nodes[get_prefix(msg.guid)] = msg.name; end of scope
NodeWrite ==
    /\ pcN = "cs"
    /\ LET p == get_prefix(msgN.guid)
       IN  /\ nodes' = NodeUpsert(nodes, p, msgN.name)
           /\ nodesIter' \in IterAfterInsert(nodesIter, DOMAIN nodes, p)
    /\ histN' = Append(histN, msgN)
    /\ msgN' = NoMsg
    /\ Release("N")
    /\ pcN' = "check"
    /\ afterStop' = Counted("nodes")
    /\ UNCHANGED <<running, topics, topicVars, pcH, consoleVars>>

task_nodes == NodeCheck \/ NodeRead \/ NodeLock \/ NodeWrite

(***************************************************************************)
(* task_topics.                                                            *)
(***************************************************************************)
\* while (state->running)
TopicCheck ==
    /\ pcT = "check"
    /\ pcT' = IF running THEN "read" ELSE "done"
    /\ UNCHANGED <<running, mtx, storeVars, msgT, histE, nodeVars, pcH, consoleVars, afterStop>>

\* data.size() >= 14 && data[0] == 'E'
TopicAccepts(d) == d.size >= MinPacket /\ d.tag = "E"

\* sock.read() returns datagram d; the size and tag test
TopicReadOf(d) ==
    /\ pcT = "read"
    /\ IF TopicAccepts(d)
       THEN /\ Delivered < MaxAnnouncements
            /\ msgT' = d.msg
            /\ pcT' = "lock"
            /\ afterStop' = afterStop
       ELSE /\ msgT' = msgT
            /\ pcT' = "check"
            /\ afterStop' = Dropped("dropT")
    /\ UNCHANGED <<running, mtx, storeVars, histE, nodeVars, pcH, consoleVars>>

\* sock.read() returns
TopicRead == \E d \in EndpointDatagrams : TopicReadOf(d)

\* std::lock_guard<std::mutex> lock(state->mtx)
TopicLock ==
    /\ pcT = "lock"
    /\ Acquire("T")
    /\ pcT' = "cs"
    /\ UNCHANGED <<running, storeVars, msgT, histE, nodeVars, pcH, consoleVars, afterStop>>

\* lookup-or-create the list, scan it, append if absent; end of scope
TopicWrite ==
    /\ pcT = "cs"
    /\ LET p == get_prefix(msgT.endpoint_guid)
           list == TopicsAt(topics, p)
       IN  topics' = [q \in DOMAIN topics \cup {p} |->
                         IF q = p THEN EndpointAppend(list, msgT.topic, IsPub(msgT.type))
                         ELSE topics[q]]
    /\ histE' = Append(histE, msgT)
    /\ msgT' = NoMsg
    /\ Release("T")
    /\ pcT' = "check"
    /\ afterStop' = Counted("topics")
    /\ UNCHANGED <<running, nodes, nodesIter, nodeVars, pcH, consoleVars>>

task_topics == TopicCheck \/ TopicRead \/ TopicLock \/ TopicWrite

(***************************************************************************)
(* task_heartbeat.                                                         *)
(***************************************************************************)
\* a loop test that never sees the flag
HeartbeatCheckForever ==
    /\ pcH = "check"
    /\ pcH' = "send"
    /\ UNCHANGED <<running, mtx, storeVars, nodeVars, topicVars, consoleVars, afterStop>>

\* while (state->running)
HeartbeatCheck ==
    /\ pcH = "check"
    /\ pcH' = IF running THEN "send" ELSE "done"
    /\ UNCHANGED <<running, mtx, storeVars, nodeVars, topicVars, consoleVars, afterStop>>

\* sender.write(...)
HeartbeatSend ==
    /\ pcH = "send"
    /\ pcH' = "sleep"
    /\ afterStop' = Counted("beats")
    /\ UNCHANGED <<running, mtx, storeVars, nodeVars, topicVars, consoleVars>>

\* std::this_thread::sleep_for(1s) returns
HeartbeatSleep ==
    /\ pcH = "sleep"
    /\ pcH' = "check"
    /\ UNCHANGED <<running, mtx, storeVars, nodeVars, topicVars, consoleVars, afterStop>>

task_heartbeat == HeartbeatCheck \/ HeartbeatSend \/ HeartbeatSleep

(***************************************************************************)
(* What the console commands print and what the exporter writes.           *)
(***************************************************************************)
\* the lines of one node's endpoint list, as info prints them
InfoLines(list) ==
    [i \in 1..Len(list) |->
        [tag |-> IF list[i].is_pub THEN "PUB" ELSE "SUB", topic |-> list[i].topic]]

\* an info loop that leaves at the first node whose name matches
InfoOutputFirst(ns, iter, ts, a) ==
    IF \E i \in 1..Len(iter) : ns[iter[i]] = a
    THEN LET k == CHOOSE i \in 1..Len(iter) :
                      /\ ns[iter[i]] = a
                      /\ \A j \in 1..(i - 1) : ns[iter[j]] # a
         IN  InfoLines(TopicsAt(ts, iter[k]))
    ELSE <<>>

\* info: for every node, in iteration order, whose name equals arg, its records
InfoOutput(ns, iter, ts, a) ==
    Flatten([i \in 1..Len(iter) |->
                IF ns[iter[i]] = a THEN InfoLines(TopicsAt(ts, iter[i])) ELSE <<>>])

\* info: state.topics[p] creates the list of every node whose name equals arg
InfoTouch(ns, ts, a) ==
    [q \in DOMAIN ts \cup {p \in DOMAIN ns : ns[p] = a} |-> TopicsAt(ts, q)]

\* a list loop that also walks the keys of topics
ListOutputAllKeys(ns, iter, ts) ==
    [i \in 1..Len(iter) |-> [tag |-> "-", name |-> ns[iter[i]]]]
        \o [i \in 1..Cardinality(DOMAIN ts \ DOMAIN ns) |-> [tag |-> "-", name |-> ""]]

\* list: one line per entry of nodes, in iteration order
ListOutput(ns, iter, ts) ==
    [i \in 1..Len(iter) |-> [tag |-> "-", name |-> ns[iter[i]]]]

\* all_topics: every topic of every endpoint list
AllTopics(ts) == UNION {{ts[p][i].topic : i \in 1..Len(ts[p])} : p \in DOMAIN ts}

\* one line of the file: a topic oval, a node box or an edge
GraphLine(kind, prefix, topic, label) ==
    [kind |-> kind, prefix |-> prefix, topic |-> topic, label |-> label]

\* the edges of one node: node -> topic for a publisher, topic -> node otherwise
EdgeLines(prefix, list) ==
    [i \in 1..Len(list) |->
        GraphLine(IF list[i].is_pub THEN "pub" ELSE "sub", prefix, list[i].topic, "")]

\* the box of one entry of nodes, then its edges if topics has the prefix
NodeLines(ns, ts, prefix) ==
    <<GraphLine("node", prefix, <<>>, ns[prefix])>>
        \o (IF prefix \in DOMAIN ts THEN EdgeLines(prefix, ts[prefix]) ELSE <<>>)

\* the opening lines and one oval per topic of all_topics, ascending
GraphHead(ts) ==
    <<GraphLine("digraph", <<>>, <<>>, "")>>
        \o [i \in 1..Cardinality(AllTopics(ts)) |->
               GraphLine("topic", <<>>, SortedSeq(AllTopics(ts))[i], "")]

\* the loop over state.nodes and the closing line
GraphBody(ns, iter, ts) ==
    Flatten([i \in 1..Len(iter) |-> NodeLines(ns, ts, iter[i])])
        \o <<GraphLine("end", <<>>, <<>>, "")>>

\* everything generate_graph prints to the file
GraphText(ns, iter, ts) == GraphHead(ts) \o GraphBody(ns, iter, ts)

(***************************************************************************)
(* main: the command console and the shutdown.                             *)
(***************************************************************************)
\* sscanf(buf, "%s %s", cmd, arg): the number of tokens stored
ScanCount(line) == IF Len(line) = 0 THEN -1 ELSE IF Len(line) = 1 THEN 1 ELSE 2

\* a %s conversion that writes past the end of cmd or arg
ScanOverflows(line) ==
    \E i \in 1..Len(line) : i <= 2 /\ line[i].len + 1 > TokenBuf

\* where the if/else-if chain sends a scanned line
Dispatch(c, n) ==
    IF n <= 0 THEN "prompt"
    ELSE IF c = "list" THEN "list_lock"
    ELSE IF c = "info" /\ n = 2 THEN "info_lock"
    ELSE IF c = "graph" THEN "graph_lock"
    ELSE IF c = "quit" THEN "shutdown"
    ELSE "prompt"

\* fgets returns NULL: leave the loop
ReadEof ==
    /\ pcM = "prompt"
    /\ eof' = TRUE
    /\ pcM' = "shutdown"
    /\ UNCHANGED <<running, mtx, storeVars, nodeVars, topicVars, pcH, cmd, arg,
                   out, dot, rasterized, afterStop>>

\* fgets returns a line whose tokens fit: sscanf and the dispatch.  cmd and
\* arg are dead once an iteration ends (each read of them follows a write in
\* the same iteration), so a line that leads back to the prompt leaves them
\* cleared
ReadLine ==
    /\ pcM = "prompt"
    /\ \E line \in Lines :
          LET n == ScanCount(line)
              c == IF n >= 1 THEN line[1].s ELSE cmd
              next == Dispatch(c, n)
          IN  /\ ~ScanOverflows(line)
              /\ pcM' = next
              /\ cmd' = IF next = "prompt" THEN "" ELSE c
              /\ arg' = IF next = "info_lock" THEN line[2].s ELSE ""
    /\ UNCHANGED <<running, mtx, storeVars, nodeVars, topicVars, pcH, eof, out,
                   dot, rasterized, afterStop>>

\* fgets returns a line with a token of 64 characters or more: sscanf writes
\* past the buffer, which is undefined: the process is killed (all threads
\* with it), or the bytes land in unused stack and the line is handled as
\* the unknown command it is
ReadOverflow ==
    /\ pcM = "prompt"
    /\ \E line \in Lines :
          /\ ScanOverflows(line)
          /\ \/ /\ pcM' = "aborted"
                /\ cmd' = line[1].s
                /\ pcN' = "killed" /\ pcT' = "killed" /\ pcH' = "killed"
             \/ /\ pcM' = "prompt"
                /\ cmd' = ""
                /\ UNCHANGED <<pcN, pcT, pcH>>
    /\ UNCHANGED <<running, mtx, storeVars, msgN, histN, msgT, histE, arg, eof,
                   out, dot, rasterized, afterStop>>

\* std::lock_guard<std::mutex> lock(state.mtx) of list, info and generate_graph
MainLock ==
    /\ pcM \in {"list_lock", "info_lock", "graph_lock"}
    /\ Acquire("M")
    /\ pcM' = CASE pcM = "list_lock" -> "list_body"
                [] pcM = "info_lock" -> "info_body"
                [] pcM = "graph_lock" -> "graph_open"
    /\ UNCHANGED <<running, storeVars, nodeVars, topicVars, pcH, cmd, arg, eof,
                   out, dot, rasterized, afterStop>>

\* list: the loop over state.nodes
ListBody ==
    /\ pcM = "list_body"
    /\ out' = ListOutput(nodes, nodesIter, topics)
    /\ pcM' = "list_unlock"
    /\ UNCHANGED <<running, mtx, storeVars, nodeVars, topicVars, pcH, cmd, arg,
                   eof, dot, rasterized, afterStop>>

\* info: the loop over state.nodes
InfoBody ==
    /\ pcM = "info_body"
    /\ out' = InfoOutput(nodes, nodesIter, topics, arg)
    /\ topics' = InfoTouch(nodes, topics, arg)
    /\ pcM' = "info_unlock"
    /\ UNCHANGED <<running, mtx, nodes, nodesIter, nodeVars, topicVars, pcH, cmd,
                   arg, eof, dot, rasterized, afterStop>>

\* generate_graph: fopen succeeds or returns NULL
GraphOpen ==
    /\ pcM = "graph_open"
    /\ pcM' \in {"graph_write", "graph_failed"}
    /\ UNCHANGED <<running, mtx, storeVars, nodeVars, topicVars, pcH, cmd, arg,
                   eof, out, dot, rasterized, afterStop>>

\* generate_graph: the opening lines, the walk over state.topics and the
\* topic ovals
GraphWriteTopics ==
    /\ pcM = "graph_write"
    /\ dot' = GraphHead(topics)
    /\ pcM' = "graph_nodes"
    /\ UNCHANGED <<running, mtx, storeVars, nodeVars, topicVars, pcH, cmd, arg,
                   eof, out, rasterized, afterStop>>

\* generate_graph: the walk over state.nodes, the closing line, fclose and
\* system()
GraphWrite ==
    /\ pcM = "graph_nodes"
    /\ dot' = dot \o GraphBody(nodes, nodesIter, topics)
    /\ rasterized' = TRUE
    /\ pcM' = "graph_done"
    /\ UNCHANGED <<running, mtx, storeVars, nodeVars, topicVars, pcH, cmd, arg,
                   eof, out, afterStop>>

\* a generate_graph whose early return leaves the mutex locked
MainUnlockLeaky ==
    /\ pcM \in {"list_unlock", "info_unlock", "graph_done", "graph_failed"}
    /\ mtx = "M"
    /\ mtx' = IF pcM = "graph_failed" THEN "M" ELSE "free"
    /\ pcM' = "prompt"
    /\ cmd' = "" /\ arg' = ""
    /\ out' = <<>> /\ dot' = <<>> /\ rasterized' = FALSE
    /\ UNCHANGED <<running, storeVars, nodeVars, topicVars, pcH, eof, afterStop>>

\* the lock_guard of list, info or generate_graph leaves its scope and the
\* loop is back at its prompt; out, dot and rasterized describe the command
\* being served and are cleared with it
MainUnlock ==
    /\ pcM \in {"list_unlock", "info_unlock", "graph_done", "graph_failed"}
    /\ Release("M")
    /\ pcM' = "prompt"
    /\ cmd' = "" /\ arg' = ""
    /\ out' = <<>> /\ dot' = <<>> /\ rasterized' = FALSE
    /\ UNCHANGED <<running, storeVars, nodeVars, topicVars, pcH, eof, afterStop>>

\* state.running = false.  Nothing reads cmd or tests fgets again once the
\* loop is left, so the reason for leaving it is cleared with the step
MainStop ==
    /\ pcM = "shutdown"
    /\ running' = FALSE
    /\ pcM' = "join_c"
    /\ cmd' = "" /\ eof' = FALSE
    /\ UNCHANGED <<mtx, storeVars, nodeVars, topicVars, pcH, arg, out,
                   dot, rasterized, afterStop>>

\* a future whose destructor returns at once
FutureReadyNoWait(pc) == TRUE

\* the destructor of a future obtained from std::async returns once the task
\* has finished
FutureReady(pc) == pc = "done"

\* return 0: fut_c, fut_b and fut_a are destroyed in that order, then state
MainJoin ==
    /\ \/ pcM = "join_c" /\ FutureReady(pcH) /\ pcM' = "join_b"
       \/ pcM = "join_b" /\ FutureReady(pcT) /\ pcM' = "join_a"
       \/ pcM = "join_a" /\ FutureReady(pcN) /\ pcM' = "exited"
    /\ UNCHANGED <<running, mtx, storeVars, nodeVars, topicVars, pcH, cmd, arg,
                   eof, out, dot, rasterized, afterStop>>

main ==
    \/ ReadEof \/ ReadLine \/ ReadOverflow
    \/ MainLock \/ ListBody \/ InfoBody \/ GraphOpen \/ GraphWriteTopics
    \/ GraphWrite \/ MainUnlock
    \/ MainStop \/ MainJoin

(***************************************************************************)
(* The system.                                                             *)
(***************************************************************************)
Next == task_nodes \/ task_topics \/ task_heartbeat \/ main

Spec == Init /\ [][Next]_vars

\* the system with a scheduler that lets a listener that can take a step
\* take it; the arrival of a datagram is left to the network
FairSpec ==
    /\ Init /\ [][Next]_vars
    /\ WF_vars(NodeCheck) /\ WF_vars(NodeLock) /\ WF_vars(NodeWrite)
    /\ WF_vars(TopicCheck) /\ WF_vars(TopicLock) /\ WF_vars(TopicWrite)

(***************************************************************************)
(* Vocabulary of the properties.  These definitions say what the           *)
(* specification means; none of them is used by an action.                 *)
(***************************************************************************)
\* the 48-bit prefix of a guid: its three low limbs
Low48(g) == <<g[1], g[2], g[3], 0>>

\* the prefixes of the node announcements stored so far
SeenNodePrefixes == {Low48(histN[i].guid) : i \in 1..Len(histN)}

\* the prefixes of the endpoint announcements stored so far
SeenEndpointPrefixes == {Low48(histE[i].endpoint_guid) : i \in 1..Len(histE)}

\* the (topic, role) pairs announced for prefix p; TRUE stands for Publisher
AnnouncedPairs(p) ==
    {<<histE[i].topic, histE[i].type = "Writer">> :
        i \in {j \in 1..Len(histE) : Low48(histE[j].endpoint_guid) = p}}

\* s without its last element
Front(s) == SubSeq(s, 1, Len(s) - 1)

RECURSIVE SeqNodes(_)
\* the nodes mapping after a single caller applies announcements h in order
SeqNodes(h) ==
    IF h = <<>> THEN <<>>
    ELSE LET prev == SeqNodes(Front(h))
             m == h[Len(h)]
         IN  [q \in DOMAIN prev \cup {Low48(m.guid)} |->
                 IF q = Low48(m.guid) THEN m.name ELSE prev[q]]

RECURSIVE SeqList(_, _)
\* prefix p's endpoint list after a single caller applies announcements h in order
SeqList(h, p) ==
    IF h = <<>> THEN <<>>
    ELSE LET prev == SeqList(Front(h), p)
             m == h[Len(h)]
             rec == [topic |-> m.topic, is_pub |-> (m.type = "Writer")]
         IN  IF Low48(m.endpoint_guid) = p /\ \A i \in 1..Len(prev) : prev[i] # rec
             THEN Append(prev, rec)
             ELSE prev

\* the positions of main at which it holds the lock and uses the Store
MainCs ==
    {"list_body", "list_unlock", "info_body", "info_unlock", "graph_open",
     "graph_write", "graph_nodes", "graph_done", "graph_failed"}

\* the positions of main inside the console loop
LoopPcs == {"prompt", "list_lock", "info_lock", "graph_lock"} \cup MainCs

\* the nodes whose name equals arg, in iteration order
Matching == SelectSeq(nodesIter, LAMBDA p : nodes[p] = arg)

RECURSIVE RecordsBefore(_)
\* the number of endpoint records of the first k - 1 matching nodes
RecordsBefore(k) ==
    IF k <= 1 THEN 0
    ELSE RecordsBefore(k - 1) + Len(TopicsAt(topics, Matching[k - 1]))

\* the line info prints for an endpoint record
RecordLine(ep) == [tag |-> IF ep.is_pub THEN "PUB" ELSE "SUB", topic |-> ep.topic]

(***************************************************************************)
(* C1: after any sequence of node announcements has been stored, nodes     *)
(* holds exactly one entry per distinct 48-bit prefix in the sequence, and *)
(* each entry's name is that of the last announcement with that prefix;    *)
(* guids that differ only above bit 47 share one entry.                    *)
(***************************************************************************)
C1_NodesLastWriteWins ==
    /\ DOMAIN nodes = SeenNodePrefixes
    /\ Len(nodesIter) = Cardinality(SeenNodePrefixes)
    /\ {nodesIter[i] : i \in 1..Len(nodesIter)} = SeenNodePrefixes
    /\ \A i \in 1..Len(histN) :
          (\A j \in (i + 1)..Len(histN) : Low48(histN[j].guid) # Low48(histN[i].guid))
              => nodes[Low48(histN[i].guid)] = histN[i].name

\* two guids that differ only above bit 47 were stored, with different names
C1_Witness ==
    \E i, j \in 1..Len(histN) :
        /\ i < j
        /\ histN[i].guid # histN[j].guid
        /\ Low48(histN[i].guid) = Low48(histN[j].guid)
        /\ histN[i].name # histN[j].name
        /\ Cardinality(DOMAIN nodes) = 1

(***************************************************************************)
(* C2: in every state, every prefix's endpoint list holds exactly one      *)
(* record per distinct (topic, role) pair announced for it: a repeated     *)
(* announcement adds nothing, a Publisher and a Subscriber of one topic    *)
(* are two records.                                                        *)
(***************************************************************************)
C2_EndpointDedup ==
    \A p \in DOMAIN topics \cup SeenEndpointPrefixes :
        LET list == TopicsAt(topics, p)
        IN  /\ {<<list[i].topic, list[i].is_pub>> : i \in 1..Len(list)} = AnnouncedPairs(p)
            /\ Len(list) = Cardinality(AnnouncedPairs(p))

\* one triple was stored twice, and one topic has a Publisher and a Subscriber
C2_Witness ==
    /\ \E i, j \in 1..Len(histE) : i < j /\ histE[i] = histE[j]
    /\ \E p \in DOMAIN topics :
          /\ Len(topics[p]) = 2
          /\ topics[p][1].topic = topics[p][2].topic
          /\ topics[p][1].is_pub # topics[p][2].is_pub

(***************************************************************************)
(* C3: whatever the interleaving of the two listeners with each other and  *)
(* with the console, the Store equals what one caller applying the node    *)
(* announcements in order and the endpoint announcements in order obtains. *)
(***************************************************************************)
C3_InterleavingIndependent ==
    /\ nodes = SeqNodes(histN)
    /\ \A p \in DOMAIN topics \cup SeenEndpointPrefixes :
          TopicsAt(topics, p) = SeqList(histE, p)

\* both listeners have stored announcements and stopped, an info command ran in between
C3_Witness ==
    /\ pcN = "done" /\ pcT = "done"
    /\ Len(histN) >= 1 /\ Len(histE) >= 1
    /\ Len(histN) + Len(histE) = MaxAnnouncements
    /\ \E p \in DOMAIN topics : topics[p] = <<>>

(***************************************************************************)
(* C4: every activity that reads or writes a mapping holds the lock, so no *)
(* two activities use the Store at the same time.                          *)
(***************************************************************************)
C4_StoreAccessLocked ==
    /\ pcN = "cs" => mtx = "N"
    /\ pcT = "cs" => mtx = "T"
    /\ pcM \in MainCs => mtx = "M"
    /\ Cardinality({t \in {"N", "T", "M"} :
            \/ t = "N" /\ pcN = "cs"
            \/ t = "T" /\ pcT = "cs"
            \/ t = "M" /\ pcM \in MainCs}) <= 1

\* the exporter is writing while both listeners wait for the lock
C4_Witness == pcM = "graph_write" /\ pcN = "lock" /\ pcT = "lock"

(***************************************************************************)
(* C5: an export made while an endpoint record exists for a prefix that    *)
(* nodes does not hold still emits a node vertex for that prefix and the   *)
(* edge to its topic.                                                      *)
(***************************************************************************)
C5_UnknownNodeDrawn ==
    pcM = "graph_done" =>
        \A p \in DOMAIN topics :
            \A i \in 1..Len(topics[p]) :
                /\ \E k \in 1..Len(dot) : dot[k].kind = "node" /\ dot[k].prefix = p
                /\ \E k \in 1..Len(dot) :
                      /\ dot[k].kind \in {"pub", "sub"}
                      /\ dot[k].prefix = p
                      /\ dot[k].topic = topics[p][i].topic

(***************************************************************************)
(* C6: the exported text is a function of the Store's content alone: any   *)
(* Store with the same two mappings, whatever order its history gave its   *)
(* hash table, yields the same text, with the topic vertices ascending.    *)
(***************************************************************************)
C6_ExportDeterministic ==
    pcM = "graph_done" =>
        /\ \A order \in Perms(DOMAIN nodes) : GraphText(nodes, order, topics) = dot
        /\ \A i, j \in 1..Len(dot) :
              (i < j /\ dot[i].kind = "topic" /\ dot[j].kind = "topic")
                  => LexLess(dot[i].topic, dot[j].topic)

(***************************************************************************)
(* C7 as written: info prints the records of the first node whose name     *)
(* matches, and of that node only.                                         *)
(***************************************************************************)
C7_InfoPrintsFirstMatchOnly ==
    pcM = "info_unlock" =>
        out = IF Matching = <<>> THEN <<>>
              ELSE [i \in 1..Len(TopicsAt(topics, Matching[1])) |->
                       RecordLine(topics[Matching[1]][i])]

(***************************************************************************)
(* C7 as amended: info prints the records of every node whose name         *)
(* matches, node after node in the iteration order of nodes.               *)
(***************************************************************************)
C7_InfoPrintsEveryMatch ==
    pcM = "info_unlock" =>
        /\ Len(out) = RecordsBefore(Len(Matching) + 1)
        /\ \A k \in 1..Len(Matching) :
              \A i \in 1..Len(TopicsAt(topics, Matching[k])) :
                  out[RecordsBefore(k) + i] = RecordLine(topics[Matching[k]][i])

\* info has served a name that two nodes carry, the second of which has records
C7_Witness ==
    /\ pcM = "info_unlock"
    /\ Len(Matching) = 2
    /\ TopicsAt(topics, Matching[2]) # <<>>
    /\ Len(out) >= 1

(***************************************************************************)
(* C8: list prints one line per distinct prefix seen in a stored node      *)
(* announcement, carrying that prefix's name, and nothing for a prefix     *)
(* known from endpoint announcements only.                                 *)
(***************************************************************************)
C8_ListOnePerNodePrefix ==
    pcM = "list_unlock" =>
        /\ Len(out) = Cardinality(SeenNodePrefixes)
        /\ \A nm \in Names \cup {""} :
              Cardinality({i \in 1..Len(out) : out[i].name = nm})
                  = Cardinality({p \in SeenNodePrefixes : SeqNodes(histN)[p] = nm})

\* list has printed while topics holds a prefix that nodes does not
C8_Witness ==
    /\ pcM = "list_unlock"
    /\ Len(out) >= 1
    /\ \E p \in DOMAIN topics : p \notin DOMAIN nodes /\ topics[p] # <<>>

(***************************************************************************)
(* C9 as written: once running is false main returns without waiting for   *)
(* the background activities, so it is never held up behind one of them.   *)
(***************************************************************************)
C9_MainReturnsWithoutJoining ==
    pcM \in {"join_c", "join_b", "join_a"} => ENABLED MainJoin

(***************************************************************************)
(* C9 as amended: main reaches process exit only after the heartbeat       *)
(* broadcaster and both listeners have terminated.                         *)
(***************************************************************************)
C9_ExitOnlyAfterTasksEnd ==
    /\ pcM = "exited" => (pcH = "done" /\ pcT = "done" /\ pcN = "done")
    /\ pcM = "join_a" => (pcH = "done" /\ pcT = "done")
    /\ pcM = "join_b" => pcH = "done"

\* main has exited
C9_Witness == pcM = "exited" /\ running = FALSE

(***************************************************************************)
(* C10: running is true while the console loop runs; only quit and         *)
(* end-of-input leave the loop and set it to false; every other line keeps *)
(* it true and the loop going; once false it stays false.                  *)
(***************************************************************************)
C10_RunningUntilQuit ==
    [][/\ pcM \in LoopPcs => running
       /\ ~running => ~running'
       /\ (running /\ ~running') => (cmd = "quit" \/ eof)
       /\ (pcM = "prompt" /\ pcM' = "shutdown") => (cmd' = "quit" \/ eof')
       /\ (pcM = "prompt" /\ pcM' # "shutdown") => (running' /\ pcM' \in LoopPcs)]_vars

(***************************************************************************)
(* C11: an endpoint announcement of type Writer is stored with role        *)
(* Publisher and one of any other type with role Subscriber; so once a     *)
(* node announcement (g, n) and an endpoint announcement (g, t, type) are  *)
(* stored and n is still the node's name, list prints n and info n prints  *)
(* [PUB] t when type is Writer and [SUB] t otherwise.                      *)
(***************************************************************************)
C11_WriterIsPublisher ==
    /\ \A j \in 1..Len(histE) :
          LET p == Low48(histE[j].endpoint_guid)
          IN  /\ p \in DOMAIN topics
              /\ \E k \in 1..Len(topics[p]) :
                    /\ topics[p][k].topic = histE[j].topic
                    /\ topics[p][k].is_pub = (histE[j].type = "Writer")
    /\ \A i \in 1..Len(histN) : \A j \in 1..Len(histE) :
          LET p == Low48(histN[i].guid)
              n == histN[i].name
              tag == IF histE[j].type = "Writer" THEN "PUB" ELSE "SUB"
          IN  (Low48(histE[j].endpoint_guid) = p /\ nodes[p] = n) =>
                /\ pcM = "list_unlock" =>
                      \E k \in 1..Len(out) : out[k] = [tag |-> "-", name |-> n]
                /\ (pcM = "info_unlock" /\ arg = n) =>
                      \E k \in 1..Len(out) :
                          out[k] = [tag |-> tag, topic |-> histE[j].topic]

\* info has printed [PUB] for a Writer announced after its node, and list is
\* possible with the same Store
C11_Witness ==
    /\ pcM = "info_unlock"
    /\ \E i \in 1..Len(histN) : \E j \in 1..Len(histE) :
          /\ Low48(histE[j].endpoint_guid) = Low48(histN[i].guid)
          /\ histE[j].type = "Writer"
          /\ arg = histN[i].name
          /\ nodes[Low48(histN[i].guid)] = arg
          /\ \E k \in 1..Len(out) : out[k] = [tag |-> "PUB", topic |-> histE[j].topic]

\* the positions of main inside generate_graph before the last line is written
ExportPcs == {"graph_open", "graph_write", "graph_nodes"}

(***************************************************************************)
(* C12: the exporter holds the Store lock from before it reads the first   *)
(* mapping entry until after it has written the last line: no listener's   *)
(* mutation of the Store takes effect during one export, and the text      *)
(* written is that of a single Store state.                                *)
(***************************************************************************)
C12_ExportUnderLock ==
    [][/\ pcM \in ExportPcs => (mtx = "M" /\ mtx' = "M" /\ storeVars' = storeVars)
       /\ (pcM = "graph_nodes" /\ pcM' = "graph_done") =>
              dot' = GraphText(nodes', nodesIter', topics')]_vars

\* an export has ended while both listeners wait for the lock with an
\* announcement each, and its text is that of the Store they could not change
C12_Witness ==
    /\ pcM = "graph_done"
    /\ pcN = "lock" /\ pcT = "lock"
    /\ DOMAIN nodes # {}
    /\ dot = GraphText(nodes, nodesIter, topics)

\* the lines of the file that are the edge of record ep of prefix p
EdgesOf(p, ep) ==
    {k \in 1..Len(dot) :
        dot[k] = GraphLine(IF ep.is_pub THEN "pub" ELSE "sub", p, ep.topic, "")}

(***************************************************************************)
(* C13: an export writes exactly one edge for every endpoint record of     *)
(* every prefix that has an endpoint list, node-to-topic for a Publisher   *)
(* and topic-to-node for a Subscriber; no record is left without an edge   *)
(* and no edge is written without a record.                                *)
(***************************************************************************)
C13_OneEdgePerRecord ==
    pcM = "graph_done" =>
        /\ \A p \in DOMAIN topics : \A i \in 1..Len(topics[p]) :
              Cardinality(EdgesOf(p, topics[p][i])) = 1
        /\ \A k \in 1..Len(dot) :
              dot[k].kind \in {"pub", "sub"} =>
                  \E p \in DOMAIN topics : \E i \in 1..Len(topics[p]) :
                      k \in EdgesOf(p, topics[p][i])

\* a datagram the Node Listener must discard: undersized, or not tagged 'N'
BadForNodes(d) == d.size < MinPacket \/ d.tag # "N"

\* a datagram the Endpoint Listener must discard: undersized, or not tagged 'E'
BadForTopics(d) == d.size < MinPacket \/ d.tag # "E"

(***************************************************************************)
(* C14: a datagram of fewer than 14 bytes, or whose tag is not the         *)
(* listener's ('N' for the Node Listener, 'E' for the Endpoint Listener),  *)
(* leaves both mappings unchanged and raises no error, and the listener    *)
(* goes back to the head of its loop for the next receive.                 *)
(***************************************************************************)
C14_BadDatagramDiscarded ==
    [][/\ \A d \in NodeDatagrams :
             (BadForNodes(d) /\ NodeReadOf(d)) =>
                 /\ storeVars' = storeVars
                 /\ msgN' = msgN /\ histN' = histN
                 /\ pcN' = "check"
                 /\ pcM' = pcM /\ pcT' = pcT /\ pcH' = pcH
       /\ \A d \in EndpointDatagrams :
             (BadForTopics(d) /\ TopicReadOf(d)) =>
                 /\ storeVars' = storeVars
                 /\ msgT' = msgT /\ histE' = histE
                 /\ pcT' = "check"
                 /\ pcM' = pcM /\ pcN' = pcN /\ pcH' = pcH]_vars

\* each listener, released from its receive after quit by a datagram it had
\* to discard, stored nothing and ended
C14_Witness ==
    /\ afterStop.dropN /\ afterStop.dropT
    /\ afterStop.nodes = 0 /\ afterStop.topics = 0
    /\ pcN = "done" /\ pcT = "done"

(***************************************************************************)
(* C15: the Store only grows: across every step of every activity a prefix *)
(* present in nodes stays present, a prefix that has an endpoint list      *)
(* keeps it, and every record of a list stays at the position it has; no   *)
(* step removes or reorders records.                                       *)
(***************************************************************************)
C15_StoreOnlyGrows ==
    [][/\ DOMAIN nodes \subseteq DOMAIN nodes'
       /\ DOMAIN topics \subseteq DOMAIN topics'
       /\ \A p \in DOMAIN topics :
             /\ Len(topics'[p]) >= Len(topics[p])
             /\ SubSeq(topics'[p], 1, Len(topics[p])) = topics[p]]_vars

\* a list has grown to two records of different topics beside a stored node
C15_Witness ==
    /\ DOMAIN nodes # {}
    /\ \E p \in DOMAIN topics :
          /\ Len(topics[p]) = 2
          /\ topics[p][1].topic # topics[p][2].topic

(***************************************************************************)
(* C16: when the graph file cannot be opened the export ends without side  *)
(* effects: no graph text is written, the rasterizer is not invoked, both  *)
(* mappings are unchanged, and the lock is released, so the listeners and  *)
(* the broadcaster keep running and the console is back at its prompt.     *)
(***************************************************************************)
C16_OpenFailureHarmless ==
    [][/\ (pcM = "graph_open" /\ pcM' = "graph_failed") =>
              /\ storeVars' = storeVars
              /\ dot' = <<>> /\ ~rasterized'
       /\ pcM = "graph_failed" =>
              /\ dot = <<>> /\ ~rasterized /\ running
              /\ {pcN, pcT, pcH} \cap {"done", "killed"} = {}
              /\ nodes' = nodes /\ topics' = topics
              /\ pcM' # "graph_failed" =>
                    /\ pcM' = "prompt" /\ mtx' = "free"
                    /\ dot' = <<>> /\ ~rasterized' /\ running'
                    /\ <<pcN', pcT', pcH'>> = <<pcN, pcT, pcH>>]_vars

\* fopen has failed on a Store that holds a node and a record, while a
\* listener waits for the lock with its next announcement
C16_Witness ==
    /\ pcM = "graph_failed"
    /\ DOMAIN nodes # {} /\ \E p \in DOMAIN topics : topics[p] # <<>>
    /\ pcN = "lock" \/ pcT = "lock"

\* the positions of a listener between a receive that returned and the next
\* loop test
PastRead == {"lock", "cs", "check"}

(***************************************************************************)
(* C17: after running has been set to false a listener blocked in its      *)
(* receive leaves it only when a datagram arrives, so it never ends if     *)
(* none does; once one has arrived it does not receive again, and it ends. *)
(***************************************************************************)
C17_BlockedUntilDatagram ==
    /\ [][/\ (~running /\ pcN = "read" /\ pcN' # "read") =>
                 \E d \in NodeDatagrams : NodeReadOf(d)
          /\ (~running /\ pcT = "read" /\ pcT' # "read") =>
                 \E d \in EndpointDatagrams : TopicReadOf(d)
          /\ (~running /\ pcN # "read") => pcN' # "read"
          /\ (~running /\ pcT # "read") => pcT' # "read"]_vars
    /\ (~running /\ pcN \in PastRead) ~> (pcN = "done")
    /\ (~running /\ pcT \in PastRead) ~> (pcT = "done")

\* after quit the Endpoint Listener has been released by an announcement and
\* has ended, and main waits for the Node Listener, still in its receive
C17_Witness ==
    /\ ~running
    /\ pcT = "done" /\ afterStop.topics = 1
    /\ pcN = "read" /\ pcM = "join_a"

(***************************************************************************)
(* C18: list, info <name> and graph leave both mappings unchanged: from    *)
(* the moment the command holds the lock to its return, the keys and the   *)
(* values of nodes and of topics stay what they were, also when info       *)
(* matches a node that has no endpoint list.                               *)
(***************************************************************************)
C18_CommandsReadOnly ==
    [][(pcM \in MainCs) => (nodes' = nodes /\ topics' = topics)]_vars

(***************************************************************************)
(* C19: once running is false each background task performs at most one    *)
(* further effect before it stops: the Node Listener stores at most one    *)
(* more node announcement, the Endpoint Listener at most one more endpoint *)
(* announcement, and the Heartbeat Broadcaster sends at most once more.    *)
(***************************************************************************)
C19_AtMostOneMoreEffect ==
    /\ afterStop.nodes <= 1
    /\ afterStop.topics <= 1
    /\ afterStop.beats <= 1
    /\ running => afterStop = NothingYet
    /\ pcN = "done" => ~running
    /\ pcT = "done" => ~running
    /\ pcH = "done" => ~running

\* all three tasks have ended, each after one more effect since quit
C19_Witness ==
    /\ afterStop.nodes = 1 /\ afterStop.topics = 1 /\ afterStop.beats = 1
    /\ pcN = "done" /\ pcT = "done" /\ pcH = "done"

(***************************************************************************)
(* C20: no background task uses the shared state after main has destroyed  *)
(* it: whenever the MonitorState of main no longer exists, the three tasks *)
(* have ended, none can take a step, and none holds the lock.              *)
(***************************************************************************)
C20_NoUseAfterDestroy ==
    pcM = "exited" =>
        /\ {pcN, pcT, pcH} = {"done"}
        /\ ~ENABLED task_nodes
        /\ ~ENABLED task_topics
        /\ ~ENABLED task_heartbeat
        /\ mtx = "free"

\* main has returned and destroyed a Store that holds what the listeners
\* put in it, one of them after quit
C20_Witness ==
    /\ pcM = "exited"
    /\ histN # <<>> /\ histE # <<>>
    /\ afterStop.nodes = 1 \/ afterStop.topics = 1

====
